---- MODULE Spec2Model ----
(***************************************************************************)
(* The ListClosedWorkflowExecutions method envelope of the WorkflowService *)
(* client: the Args and Result structs, their ToWire/FromWire codecs and   *)
(* the helper bundle (IsException, WrapResponse, UnwrapResponse), as       *)
(* generated in .gen/go/cadence/workflowservice_listclosedworkflow-        *)
(* executions.go.                                                          *)
(*                                                                         *)
(* A Go pointer is Nil or the struct it points to.  A nested struct of the *)
(* shared package is a payload [body, encodable]; its own codec is not     *)
(* part of the file and is modelled by its contract (Nested_ToWire,        *)
(* Nested_FromWire).                                                       *)
(***************************************************************************)
EXTENDS Naturals, Sequences, FiniteSets, TLC

VARIABLES
    args,     \* the WorkflowService_ListClosedWorkflowExecutions_Args struct in hand
    result,   \* the ..._Result struct in hand (Nil: a nil *Result)
    w,        \* the wire.Value last produced by ToWire or handed to FromWire
    err,      \* the error returned by the last call
    success,  \* the success argument given to WrapResponse
    inErr,    \* the error argument given to IsException / WrapResponse
    value,    \* the success value returned by UnwrapResponse
    isExc,    \* the boolean returned by IsException
    op,       \* the last call made
    from,     \* the call made before it
    sent,     \* the struct whose ToWire produced w
    pre,      \* the receiver as it was before the last FromWire
    meta      \* what MethodName and EnvelopeType last returned

\* two goroutines, each in a call of Result.FromWire
VARIABLES
    obj,      \* the two Result structs the goroutines can decode into
    gpc,      \* where each goroutine is in FromWire: idle, loop, count, done
    gk,       \* the index of the wire field each goroutine's loop is at
    gwire,    \* the wire value each goroutine decodes
    grcv,     \* the struct (1 or 2) that is each goroutine's receiver
    gerr,     \* the error each goroutine's call returned
    gstart,   \* the receiver as it was when each call began
    gout,     \* the receiver as it was when each call returned
    overlap   \* whether a call began while the other was running

\* a workflow and the session of its context
VARIABLES
    sessState,      \* none, open, failed or closed
    scheduled,      \* the number of activities scheduled so far
    created,        \* the number of sessions created so far
    sessErr,        \* the error returned by the last session call
    sessOp,         \* the last session call made
    prevState,      \* sessState before that call
    prevScheduled   \* scheduled before that call

codecVars ==
    <<args, result, w, err, success, inErr, value, isExc, op, from, sent, pre,
      meta>>

concVars == <<obj, gpc, gk, gwire, grcv, gerr, gstart, gout, overlap>>

sessVars ==
    <<sessState, scheduled, created, sessErr, sessOp, prevState, prevScheduled>>

vars == <<codecVars, concVars, sessVars>>

----------------------------------------------------------------------------
(* Bounds of the model. *)

\* nested payload contents are drawn from 1..MaxBody
MaxBody == 2
\* a wire struct supplied by the transport carries at most MaxFields fields
MaxFields == 2
\* field IDs on the wire are drawn from 0..MaxFieldID (0..5 are declared)
MaxFieldID == 6
\* an in-memory Result built by the caller has at most MaxPopulated slots set
MaxPopulated == 2

\* the longest field list of a wire value decoded by a goroutine, or
\* decoded into a struct that is already in use
MaxConcFields == 1

\* the most activities a workflow executes
MaxActivities == 3

\* the most sessions a workflow creates
MaxSessions == 2

----------------------------------------------------------------------------
(* Values. *)

\* a nil pointer, a nil error
Nil == [type |-> "nil"]

\* the zero wire.Value
EmptyValue == [type |-> "invalid"]

\* a nested shared struct behind a non-nil pointer; body 0 is the zero struct
Payload(b, e) == [type |-> "struct", body |-> b, encodable |-> e]

Payloads == {Payload(b, e) : b \in 1..MaxBody, e \in BOOLEAN}

\* the fields of the Result struct, in declaration order (field IDs 0..5)
Slots ==
    << "Success", "BadRequestError", "InternalServiceError",
       "EntityNotExistError", "ServiceBusyError",
       "ClientVersionNotSupportedError" >>

SlotNames == {Slots[i] : i \in 1..Len(Slots)}

\* the five exception slots in the order UnwrapResponse inspects them
ExceptionSlots ==
    << "BadRequestError", "InternalServiceError", "EntityNotExistError",
       "ServiceBusyError", "ClientVersionNotSupportedError" >>

\* the concrete error type held by each exception slot
SlotType ==
    [ BadRequestError                |-> "*shared.BadRequestError",
      InternalServiceError           |-> "*shared.InternalServiceError",
      EntityNotExistError            |-> "*shared.EntityNotExistsError",
      ServiceBusyError               |-> "*shared.ServiceBusyError",
      ClientVersionNotSupportedError |-> "*shared.ClientVersionNotSupportedError" ]

DeclaredTypes == {SlotType[ExceptionSlots[i]] : i \in 1..Len(ExceptionSlots)}

\* an error type of the shared package that the method does not declare
UndeclaredTypes == {"*shared.DomainAlreadyExistsError"}

\* an error interface value holding a typed pointer (the pointer may be nil)
TypedError(t, p) == [type |-> "exception", kind |-> t, ptr |-> p]

\* errors.New(msg)
ErrorString(msg) == [type |-> "errorString", msg |-> msg]

\* the error values a caller may pass: nil, typed pointers, a plain error
ErrorValues ==
    {Nil}
    \cup {TypedError(t, p) : t \in DeclaredTypes \cup UndeclaredTypes,
                             p \in {Nil} \cup Payloads}
    \cup {ErrorString("connection reset")}

ZeroArgs == [ListRequest |-> Nil]

ZeroResult == [s \in SlotNames |-> Nil]

Populated(v) == {s \in SlotNames : v[s] # Nil}

ResultValues ==
    {v \in [SlotNames -> {Nil} \cup Payloads] :
        Cardinality(Populated(v)) <= MaxPopulated}

----------------------------------------------------------------------------
(* Wire values. *)

NonStructTypes ==
    {"TBool", "TI8", "TDouble", "TI16", "TI32", "TI64", "TBinary",
     "TMap", "TSet", "TList"}

\* wire.NewValueStruct(wire.Struct{Fields: fields})
NewValueStruct(fields) == [type |-> "TStruct", Fields |-> fields]

\* the wire form of a nested shared struct; its fields are not looked into
NestedStruct(b, d) == [type |-> "TStruct", body |-> b, decodable |-> d]

\* the values a field can carry on the wire
FieldValues ==
    {NestedStruct(b, TRUE) : b \in 1..MaxBody}
    \cup {NestedStruct(0, FALSE)}
    \cup {[type |-> "TBool"]}

WireFields == [ID : 0..MaxFieldID, Value : FieldValues]

FieldSeqs == UNION {[1..n -> WireFields] : n \in 0..MaxFields}

\* the wire values the transport can hand to FromWire
WireValues ==
    {NewValueStruct(fs) : fs \in FieldSeqs}
    \cup {[type |-> t] : t \in NonStructTypes}

\* the wire values handed to FromWire on a struct that is already in use
ShortWires ==
    {NewValueStruct(fs) :
        fs \in UNION {[1..n -> [ID    : {0, 1},
                               Value : {NestedStruct(1, TRUE),
                                        NestedStruct(0, FALSE)}]] :
                      n \in 0..MaxConcFields}}

\* w.GetStruct(): the struct of a TStruct value, the zero Struct otherwise
GetStruct(x) ==
    IF x.type = "TStruct" /\ "Fields" \in DOMAIN x
    THEN [Fields |-> x.Fields]
    ELSE [Fields |-> << >>]

----------------------------------------------------------------------------
(* The codec of the nested shared structs. *)

\* the error that ToWire of the nested struct p returns when it fails
NestedEncodeError(p) == [type |-> "encodeError", body |-> p.body]

NestedDecodeError == ErrorString("nested FromWire failed")

\* (*shared.X).ToWire
Nested_ToWire(p) ==
    IF p.encodable
    THEN [w |-> NestedStruct(p.body, TRUE), err |-> Nil]
    ELSE [w |-> EmptyValue, err |-> NestedEncodeError(p)]

\* (*shared.X).FromWire on a zero struct: the struct it leaves, and the error
Nested_FromWire(x) ==
    IF x.decodable
    THEN [v |-> Payload(x.body, TRUE), err |-> Nil]
    ELSE [v |-> Payload(0, TRUE), err |-> NestedDecodeError]

\* (*shared.X).Equals
Nested_Equals(p, q) == p.body = q.body /\ p.encodable = q.encodable

\* _X_Read returning the struct without the error of FromWire
Struct_Read_DropError(x) == [v |-> Nested_FromWire(x).v, err |-> Nil]

\* _X_Read: var v shared.X; err := v.FromWire(w); return &v, err
Struct_Read(x) == Nested_FromWire(x)

----------------------------------------------------------------------------
(* WorkflowService_ListClosedWorkflowExecutions_Args. *)

\* Args.ToWire writing an absent ListRequest as an empty field 1
Args_ToWire_Null(v) ==
    IF v.ListRequest # Nil
    THEN LET r == Nested_ToWire(v.ListRequest)
         IN  IF r.err # Nil
             THEN [w |-> r.w, err |-> r.err]
             ELSE [w   |-> NewValueStruct(<< [ID |-> 1, Value |-> r.w] >>),
                   err |-> Nil]
    ELSE [w   |-> NewValueStruct(<< [ID |-> 1, Value |-> EmptyValue] >>),
          err |-> Nil]

\* Args.ToWire: the wire value and the error it returns
Args_ToWire(v) ==
    IF v.ListRequest # Nil
    THEN LET r == Nested_ToWire(v.ListRequest)
         IN  IF r.err # Nil
             THEN [w |-> r.w, err |-> r.err]
             ELSE [w   |-> NewValueStruct(<< [ID |-> 1, Value |-> r.w] >>),
                   err |-> Nil]
    ELSE [w |-> NewValueStruct(<< >>), err |-> Nil]

\* the loop of Args.FromWire from field k on: the receiver and the error
RECURSIVE Args_ReadFields(_, _, _)
Args_ReadFields(v, fields, k) ==
    IF k > Len(fields)
    THEN [v |-> v, err |-> Nil]
    ELSE LET field == fields[k]
         IN  IF field.ID = 1 /\ field.Value.type = "TStruct"
             THEN LET r == Struct_Read(field.Value)
                      v1 == [v EXCEPT !.ListRequest = r.v]
                  IN  IF r.err # Nil
                      THEN [v |-> v1, err |-> r.err]
                      ELSE Args_ReadFields(v1, fields, k + 1)
             ELSE Args_ReadFields(v, fields, k + 1)

\* Args.FromWire on receiver v: the receiver afterwards and the error
Args_FromWire(v, x) == Args_ReadFields(v, GetStruct(x).Fields, 1)

\* the comparison Equals makes of one pointer field
Field_Equals(p, q) ==
    \/ p = Nil /\ q = Nil
    \/ p # Nil /\ q # Nil /\ Nested_Equals(p, q)

\* Args.Equals
Args_Equals(v, rhs) == Field_Equals(v.ListRequest, rhs.ListRequest)

----------------------------------------------------------------------------
(* WorkflowService_ListClosedWorkflowExecutions_Result. *)

ResultName == "WorkflowService_ListClosedWorkflowExecutions_Result"

\* fmt.Errorf("<ResultName> should have exactly one field: got %v fields", n)
ArityError(n) == [type |-> "arity", name |-> ResultName, count |-> n]

\* the blocks of Result.ToWire from slot k on, fields being those appended
RECURSIVE Result_AppendFields(_, _, _)
Result_AppendFields(v, k, fields) ==
    IF k > Len(Slots)
    THEN IF Len(fields) # 1
         THEN [w |-> EmptyValue, err |-> ArityError(Len(fields))]
         ELSE [w |-> NewValueStruct(fields), err |-> Nil]
    ELSE IF v[Slots[k]] # Nil
         THEN LET r == Nested_ToWire(v[Slots[k]])
              IN  IF r.err # Nil
                  THEN [w |-> r.w, err |-> r.err]
                  ELSE Result_AppendFields(v, k + 1,
                           Append(fields, [ID |-> k - 1, Value |-> r.w]))
         ELSE Result_AppendFields(v, k + 1, fields)

\* Result.ToWire numbering the fields from 1 instead of 0
RECURSIVE Result_AppendFields_FromOne(_, _, _)
Result_AppendFields_FromOne(v, k, fields) ==
    IF k > Len(Slots)
    THEN IF Len(fields) # 1
         THEN [w |-> EmptyValue, err |-> ArityError(Len(fields))]
         ELSE [w |-> NewValueStruct(fields), err |-> Nil]
    ELSE IF v[Slots[k]] # Nil
         THEN LET r == Nested_ToWire(v[Slots[k]])
              IN  IF r.err # Nil
                  THEN [w |-> r.w, err |-> r.err]
                  ELSE Result_AppendFields_FromOne(v, k + 1,
                           Append(fields, [ID |-> k, Value |-> r.w]))
         ELSE Result_AppendFields_FromOne(v, k + 1, fields)

Result_ToWire_FromOne(v) == Result_AppendFields_FromOne(v, 1, << >>)

\* Result.ToWire rejecting only the empty Result (i < 1 for i != 1)
RECURSIVE Result_AppendFields_AtLeastOne(_, _, _)
Result_AppendFields_AtLeastOne(v, k, fields) ==
    IF k > Len(Slots)
    THEN IF Len(fields) < 1
         THEN [w |-> EmptyValue, err |-> ArityError(Len(fields))]
         ELSE [w |-> NewValueStruct(fields), err |-> Nil]
    ELSE IF v[Slots[k]] # Nil
         THEN LET r == Nested_ToWire(v[Slots[k]])
              IN  IF r.err # Nil
                  THEN [w |-> r.w, err |-> r.err]
                  ELSE Result_AppendFields_AtLeastOne(v, k + 1,
                           Append(fields, [ID |-> k - 1, Value |-> r.w]))
         ELSE Result_AppendFields_AtLeastOne(v, k + 1, fields)

Result_ToWire_AtLeastOne(v) == Result_AppendFields_AtLeastOne(v, 1, << >>)

\* Result.ToWire checking the number of populated fields before encoding
Result_ToWire_ArityFirst(v) ==
    IF Cardinality(Populated(v)) # 1
    THEN [w |-> EmptyValue, err |-> ArityError(Cardinality(Populated(v)))]
    ELSE Result_AppendFields(v, 1, << >>)

\* Result.ToWire: the wire value and the error it returns
Result_ToWire(v) == Result_AppendFields(v, 1, << >>)

\* Result.FromWire without the check of the count
Result_Count_Unchecked(v) == [v |-> v, err |-> Nil]

\* the count Result.FromWire takes of the receiver after its loop
Result_Count(v) ==
    LET n == Cardinality(Populated(v))
    IN  IF n # 1
        THEN [v |-> v, err |-> ArityError(n)]
        ELSE [v |-> v, err |-> Nil]

\* the loop of Result.FromWire from field k on, then the count
\* one pass of the loop that leaves a slot already populated as it is
Result_ReadField_KeepFirst(v, field) ==
    IF /\ field.ID \in 0..5
       /\ field.Value.type = "TStruct"
       /\ v[Slots[field.ID + 1]] = Nil
    THEN LET r == Struct_Read(field.Value)
         IN  [v |-> [v EXCEPT ![Slots[field.ID + 1]] = r.v], err |-> r.err]
    ELSE [v |-> v, err |-> Nil]

\* one pass of the loop of Result.FromWire: the switch on field.ID
Result_ReadField(v, field) ==
    IF field.ID \in 0..5 /\ field.Value.type = "TStruct"
    THEN LET r == Struct_Read(field.Value)
         IN  [v |-> [v EXCEPT ![Slots[field.ID + 1]] = r.v], err |-> r.err]
    ELSE [v |-> v, err |-> Nil]

RECURSIVE Result_ReadFields(_, _, _)
Result_ReadFields(v, fields, k) ==
    IF k > Len(fields)
    THEN Result_Count(v)
    ELSE LET r == Result_ReadField(v, fields[k])
         IN  IF r.err # Nil
             THEN r
             ELSE Result_ReadFields(r.v, fields, k + 1)

\* Result.FromWire failing on a field ID it does not know
Result_FromWire_RejectUnknown(v, x) ==
    IF \E i \in 1..Len(GetStruct(x).Fields) : GetStruct(x).Fields[i].ID \notin 0..5
    THEN [v |-> v, err |-> ErrorString("unknown field")]
    ELSE Result_ReadFields(v, GetStruct(x).Fields, 1)

\* Result.FromWire failing on a declared field that is not a struct
Result_FromWire_TypeStrict(v, x) ==
    IF \E i \in 1..Len(GetStruct(x).Fields) :
          /\ GetStruct(x).Fields[i].ID \in 0..5
          /\ GetStruct(x).Fields[i].Value.type # "TStruct"
    THEN [v |-> v, err |-> ErrorString("unexpected field type")]
    ELSE Result_ReadFields(v, GetStruct(x).Fields, 1)

\* Result.FromWire leaving the loop after the first field
Result_FromWire_FirstFieldOnly(v, x) ==
    IF Len(GetStruct(x).Fields) = 0
    THEN Result_Count(v)
    ELSE Result_ReadFields(v, <<GetStruct(x).Fields[1]>>, 1)

\* Result.FromWire decoding into a zeroed receiver
Result_FromWire_Reset(v, x) ==
    Result_ReadFields(ZeroResult, GetStruct(x).Fields, 1)

\* Result.FromWire on receiver v: the receiver afterwards and the error
Result_FromWire(v, x) == Result_ReadFields(v, GetStruct(x).Fields, 1)

\* Result.Equals
Result_Equals(v, rhs) == \A s \in SlotNames : Field_Equals(v[s], rhs[s])

----------------------------------------------------------------------------
(* The envelope of the method. *)

\* Args.MethodName
Args_MethodName(v) == "ListClosedWorkflowExecutions"

\* Args.EnvelopeType
Args_EnvelopeType(v) == "Call"

\* Result.MethodName
Result_MethodName(v) == "ListClosedWorkflowExecutions"

\* Result.EnvelopeType returning Call as Args.EnvelopeType does
Result_EnvelopeType_Call(v) == "Call"

\* Result.EnvelopeType
Result_EnvelopeType(v) == "Reply"

----------------------------------------------------------------------------
(* WorkflowService_ListClosedWorkflowExecutions_Helper. *)

\* IsException answering for any typed shared error
IsException_AnyTyped(e) == e.type = "exception"

\* Helper.IsException
IsException(e) == e.type = "exception" /\ e.kind \in DeclaredTypes

\* errors.New("WrapResponse received non-nil error type with nil value for ...")
NilValueError(s) == [type |-> "nilValue", name |-> ResultName, slot |-> s]

\* the slot of the case of WrapResponse's type switch that e takes, if any
CaseOf(e) ==
    IF e.type = "exception"
    THEN {s \in DOMAIN SlotType : SlotType[s] = e.kind}
    ELSE {}

\* WrapResponse building an empty Result when there is no error
WrapResponse_DropSuccess(s, e) ==
    IF e = Nil
    THEN [result |-> ZeroResult, err |-> Nil]
    ELSE IF CaseOf(e) # {}
         THEN LET slot == CHOOSE c \in CaseOf(e) : TRUE
              IN  IF e.ptr = Nil
                  THEN [result |-> Nil, err |-> NilValueError(slot)]
                  ELSE [result |-> [ZeroResult EXCEPT ![slot] = e.ptr],
                        err    |-> Nil]
         ELSE [result |-> Nil, err |-> e]

\* WrapResponse keeping the success value beside the exception
WrapResponse_KeepSuccess(s, e) ==
    IF e = Nil
    THEN [result |-> [ZeroResult EXCEPT !.Success = s], err |-> Nil]
    ELSE IF CaseOf(e) # {}
         THEN LET slot == CHOOSE c \in CaseOf(e) : TRUE
              IN  IF e.ptr = Nil
                  THEN [result |-> Nil, err |-> NilValueError(slot)]
                  ELSE [result |-> [ZeroResult EXCEPT ![slot] = e.ptr,
                                                      !.Success = s],
                        err    |-> Nil]
         ELSE [result |-> Nil, err |-> e]

\* WrapResponse answering an undeclared error with the success Result
WrapResponse_Swallow(s, e) ==
    IF e = Nil \/ CaseOf(e) = {}
    THEN [result |-> [ZeroResult EXCEPT !.Success = s], err |-> Nil]
    ELSE LET slot == CHOOSE c \in CaseOf(e) : TRUE
         IN  IF e.ptr = Nil
             THEN [result |-> Nil, err |-> NilValueError(slot)]
             ELSE [result |-> [ZeroResult EXCEPT ![slot] = e.ptr],
                   err    |-> Nil]

\* WrapResponse without the checks for a nil pointer
WrapResponse_NoNilCheck(s, e) ==
    IF e = Nil
    THEN [result |-> [ZeroResult EXCEPT !.Success = s], err |-> Nil]
    ELSE IF CaseOf(e) # {}
         THEN LET slot == CHOOSE c \in CaseOf(e) : TRUE
              IN  [result |-> [ZeroResult EXCEPT ![slot] = e.ptr],
                   err    |-> Nil]
         ELSE [result |-> Nil, err |-> e]

\* Helper.WrapResponse: the *Result and the error it returns
WrapResponse(s, e) ==
    IF e = Nil
    THEN [result |-> [ZeroResult EXCEPT !.Success = s], err |-> Nil]
    ELSE IF CaseOf(e) # {}
         THEN LET slot == CHOOSE c \in CaseOf(e) : TRUE
              IN  IF e.ptr = Nil
                  THEN [result |-> Nil, err |-> NilValueError(slot)]
                  ELSE [result |-> [ZeroResult EXCEPT ![slot] = e.ptr],
                        err    |-> Nil]
         ELSE [result |-> Nil, err |-> e]

EmptyResultError == ErrorString("expected a non-void result")

\* the exception checks of UnwrapResponse from the k-th on, then Success
RECURSIVE Unwrap_From(_, _)
Unwrap_From(r, k) ==
    IF k > Len(ExceptionSlots)
    THEN IF r.Success # Nil
         THEN [success |-> r.Success, err |-> Nil]
         ELSE [success |-> Nil, err |-> EmptyResultError]
    ELSE LET s == ExceptionSlots[k]
         IN  IF r[s] # Nil
             THEN [success |-> Nil, err |-> TypedError(SlotType[s], r[s])]
             ELSE Unwrap_From(r, k + 1)

\* UnwrapResponse looking at Success before the exceptions
UnwrapResponse_SuccessFirst(r) ==
    IF r.Success # Nil
    THEN [success |-> r.Success, err |-> Nil]
    ELSE Unwrap_From(r, 1)

\* UnwrapResponse taking the empty Result for a void success
UnwrapResponse_VoidOK(r) ==
    IF Populated(r) = {}
    THEN [success |-> Nil, err |-> Nil]
    ELSE Unwrap_From(r, 1)

\* UnwrapResponse returning the success value along with the exception
UnwrapResponse_WithSuccess(r) ==
    [success |-> r.Success, err |-> Unwrap_From(r, 1).err]

\* Helper.UnwrapResponse: the success value and the error it returns
UnwrapResponse(r) == Unwrap_From(r, 1)

\* Helper.Args: &Args{ListRequest: listRequest}
Helper_Args(listRequest) == [ListRequest |-> listRequest]

----------------------------------------------------------------------------
(* The calls a caller makes.  A run builds one input, makes a call on it   *)
(* and may follow it by the calls that consume its output.                 *)

\* nothing has been built or called yet
Fresh == op = "init" /\ args = ZeroArgs /\ result = ZeroResult

\* the metadata of no call
NoMeta == [of |-> "none", name |-> "", envelope |-> ""]

\* no goroutine has begun a call
ConcIdle ==
    /\ obj = [i \in 1..2 |-> ZeroResult]
    /\ gpc = [g \in 1..2 |-> "idle"]
    /\ gk = [g \in 1..2 |-> 0]
    /\ gwire = [g \in 1..2 |-> EmptyValue]
    /\ grcv = [g \in 1..2 |-> g]
    /\ gerr = [g \in 1..2 |-> Nil]
    /\ gstart = [g \in 1..2 |-> ZeroResult]
    /\ gout = [g \in 1..2 |-> ZeroResult]
    /\ overlap = FALSE

\* the workflow has no session yet
SessIdle ==
    /\ sessState = "none"
    /\ scheduled = 0
    /\ created = 0
    /\ sessErr = Nil
    /\ sessOp = "init"
    /\ prevState = "none"
    /\ prevScheduled = 0

Init ==
    /\ ConcIdle
    /\ SessIdle
    /\ meta = NoMeta
    /\ args = ZeroArgs
    /\ result \in ResultValues
    /\ w = EmptyValue
    /\ err = Nil
    /\ success = Nil
    /\ inErr = Nil
    /\ value = Nil
    /\ isExc = FALSE
    /\ op = "init"
    /\ from = "init"
    /\ sent = Nil
    /\ pre = Nil

\* args := Helper.Args(listRequest)
CallArgs ==
    /\ Fresh
    /\ \E listRequest \in {Nil} \cup Payloads :
          args' = Helper_Args(listRequest)
    /\ op' = "Args"
    /\ from' = op
    /\ UNCHANGED <<concVars, sessVars, meta, result, w, err, success, inErr, value, isExc, sent, pre>>

\* w, err := args.ToWire()
ArgsToWire ==
    /\ op \in {"init", "Args"}
    /\ result = ZeroResult
    /\ LET r == Args_ToWire(args)
       IN  w' = r.w /\ err' = r.err
    /\ sent' = args
    /\ op' = "Args.ToWire"
    /\ from' = op
    /\ UNCHANGED <<concVars, sessVars, meta, args, result, success, inErr, value, isExc, pre>>

\* err := v.FromWire(x), v being the receiver recv
ArgsFromWire(recv, x) ==
    /\ LET r == Args_FromWire(recv, x)
       IN  args' = r.v /\ err' = r.err
    /\ w' = x
    /\ pre' = recv
    /\ op' = "Args.FromWire"
    /\ from' = op
    /\ UNCHANGED <<concVars, sessVars, meta, result, success, inErr, value, isExc, sent>>

\* the transport hands a wire value to Args.FromWire on a zero struct
ArgsReceive ==
    /\ Fresh
    /\ \E x \in WireValues : ArgsFromWire(args, x)

\* the far side decodes what ToWire produced: var v Args; v.FromWire(w)
ArgsDecode ==
    /\ op = "Args.ToWire"
    /\ err = Nil
    /\ ArgsFromWire(ZeroArgs, w)

\* args.FromWire(x) on the struct that Helper.Args built
ArgsReuse ==
    /\ op = "Args"
    /\ \E x \in ShortWires : ArgsFromWire(args, x)

\* w, err := result.ToWire()
ResultToWire ==
    /\ op \in {"init", "WrapResponse"}
    /\ result # Nil
    /\ LET r == Result_ToWire(result)
       IN  w' = r.w /\ err' = r.err
    /\ sent' = result
    /\ op' = "Result.ToWire"
    /\ from' = op
    /\ UNCHANGED <<concVars, sessVars, meta, args, result, success, inErr, value, isExc, pre>>

\* err := v.FromWire(x), v being the receiver recv
ResultFromWire(recv, x) ==
    /\ LET r == Result_FromWire(recv, x)
       IN  result' = r.v /\ err' = r.err
    /\ w' = x
    /\ pre' = recv
    /\ op' = "Result.FromWire"
    /\ from' = op
    /\ UNCHANGED <<concVars, sessVars, meta, args, success, inErr, value, isExc, sent>>

\* the transport hands a wire value to Result.FromWire on a zero struct
ResultReceive ==
    /\ Fresh
    /\ \E x \in WireValues : ResultFromWire(result, x)

\* the far side decodes what ToWire produced: var v Result; v.FromWire(w)
ResultDecode ==
    /\ op = "Result.ToWire"
    /\ err = Nil
    /\ ResultFromWire(ZeroResult, w)

\* result.FromWire(x) on a struct that already has slots populated
ResultReuse ==
    /\ op \in {"init", "WrapResponse"}
    /\ result # Nil
    /\ result # ZeroResult
    /\ \E x \in ShortWires : ResultFromWire(result, x)

\* isExc := Helper.IsException(e)
CallIsException ==
    /\ Fresh
    /\ \E e \in ErrorValues :
          /\ isExc' = IsException(e)
          /\ inErr' = e
    /\ op' = "IsException"
    /\ from' = op
    /\ UNCHANGED <<concVars, sessVars, meta, args, result, w, err, success, value, sent, pre>>

\* result, err := Helper.WrapResponse(s, e)
CallWrapResponse ==
    /\ Fresh
    /\ \E s \in {Nil} \cup Payloads, e \in ErrorValues :
          /\ LET r == WrapResponse(s, e)
             IN  result' = r.result /\ err' = r.err
          /\ success' = s
          /\ inErr' = e
    /\ op' = "WrapResponse"
    /\ from' = op
    /\ UNCHANGED <<concVars, sessVars, meta, args, w, value, isExc, sent, pre>>

\* value, err := Helper.UnwrapResponse(result)
CallUnwrapResponse ==
    /\ op \in {"init", "WrapResponse", "Result.FromWire"}
    /\ result # Nil
    /\ LET r == UnwrapResponse(result)
       IN  value' = r.success /\ err' = r.err
    /\ op' = "UnwrapResponse"
    /\ from' = op
    /\ UNCHANGED <<concVars, sessVars, meta, args, result, w, success, inErr, isExc, sent, pre>>

\* args.MethodName(); args.EnvelopeType()
ArgsEnvelope ==
    /\ op \in {"init", "Args", "Args.FromWire"}
    /\ result = ZeroResult
    /\ meta' = [of       |-> "Args",
                name     |-> Args_MethodName(args),
                envelope |-> Args_EnvelopeType(args)]
    /\ op' = "Args.Envelope"
    /\ from' = op
    /\ UNCHANGED <<concVars, sessVars, args, result, w, err, success, inErr,
                   value, isExc, sent, pre>>

\* result.MethodName(); result.EnvelopeType()
ResultEnvelope ==
    /\ op \in {"init", "WrapResponse", "Result.FromWire"}
    /\ result # Nil
    /\ meta' = [of       |-> "Result",
                name     |-> Result_MethodName(result),
                envelope |-> Result_EnvelopeType(result)]
    /\ op' = "Result.Envelope"
    /\ from' = op
    /\ UNCHANGED <<concVars, sessVars, args, result, w, err, success, inErr,
                   value, isExc, sent, pre>>

Next ==
    \/ ArgsReuse
    \/ ResultReuse
    \/ ArgsEnvelope
    \/ ResultEnvelope
    \/ CallArgs
    \/ ArgsToWire
    \/ ArgsReceive
    \/ ArgsDecode
    \/ ResultToWire
    \/ ResultReceive
    \/ ResultDecode
    \/ CallIsException
    \/ CallWrapResponse
    \/ CallUnwrapResponse

Spec == Init /\ [][Next]_vars

----------------------------------------------------------------------------
(* Two goroutines calling Result.FromWire without coordination. A call is
   not one step: it stores into the struct its receiver points to once per
   wire field, and reads that struct again when it counts the slots. *)

Goroutines == {1, 2}

Structs == {1, 2}

\* the other goroutine
Other(g) == 3 - g

\* the wire values the goroutines decode
ConcWires == ShortWires

\* a store through every pointer instead of the receiver
Store_Global(o, r, v) == [i \in DOMAIN o |-> v]

\* a store through the pointer receiver: struct r becomes v
Store(o, r, v) == [o EXCEPT ![r] = v]

\* no call of the codec has been made, and there is nothing to encode
CodecIdle ==
    /\ args = ZeroArgs
    /\ result = ZeroResult
    /\ w = EmptyValue
    /\ err = Nil
    /\ success = Nil
    /\ inErr = Nil
    /\ value = Nil
    /\ isExc = FALSE
    /\ op = "init"
    /\ from = "init"
    /\ sent = Nil
    /\ pre = Nil
    /\ meta = NoMeta

InitConc == CodecIdle /\ SessIdle /\ ConcIdle

\* go obj[r].FromWire(x)
GoStart ==
    \E g \in Goroutines, r \in Structs, x \in ConcWires :
        /\ gpc[g] = "idle"
        /\ gpc' = [gpc EXCEPT ![g] = "loop"]
        /\ gk' = [gk EXCEPT ![g] = 1]
        /\ gwire' = [gwire EXCEPT ![g] = x]
        /\ grcv' = [grcv EXCEPT ![g] = r]
        /\ gstart' = [gstart EXCEPT ![g] = obj[r]]
        /\ overlap' = (overlap \/ gpc[Other(g)] = "loop")
        /\ UNCHANGED <<codecVars, sessVars, obj, gerr, gout>>

\* one pass of the loop over w.GetStruct().Fields
GoLoopStep ==
    \E g \in Goroutines :
        /\ gpc[g] = "loop"
        /\ gk[g] <= Len(GetStruct(gwire[g]).Fields)
        /\ LET r == Result_ReadField(obj[grcv[g]],
                                     GetStruct(gwire[g]).Fields[gk[g]])
           IN  /\ obj' = Store(obj, grcv[g], r.v)
               /\ IF r.err # Nil
                  THEN /\ gpc' = [gpc EXCEPT ![g] = "done"]
                       /\ gerr' = [gerr EXCEPT ![g] = r.err]
                       /\ gout' = [gout EXCEPT ![g] = r.v]
                       /\ gk' = gk
                  ELSE /\ gk' = [gk EXCEPT ![g] = gk[g] + 1]
                       /\ UNCHANGED <<gpc, gerr, gout>>
        /\ UNCHANGED <<codecVars, sessVars, gwire, grcv, gstart, overlap>>

\* the count of the populated slots after the loop, and the return
GoReturn ==
    \E g \in Goroutines :
        /\ gpc[g] = "loop"
        /\ gk[g] > Len(GetStruct(gwire[g]).Fields)
        /\ LET r == Result_Count(obj[grcv[g]])
           IN  /\ gerr' = [gerr EXCEPT ![g] = r.err]
               /\ gout' = [gout EXCEPT ![g] = r.v]
        /\ gpc' = [gpc EXCEPT ![g] = "done"]
        /\ UNCHANGED <<codecVars, sessVars, obj, gk, gwire, grcv, gstart,
                       overlap>>

NextConc ==
    \/ GoStart
    \/ GoLoopStep
    \/ GoReturn

SpecConc == InitConc /\ [][NextConc]_vars

----------------------------------------------------------------------------
(* Sessions of a workflow, as the comments of workflow/session.go describe
   them: the functions themselves forward to the internal package. *)

\* ErrSessionFailed
ErrSessionFailed == [type |-> "ErrSessionFailed"]

\* the error of an activity that fails by itself
ActivityError == [type |-> "activityError"]

\* the error of CreateSession and RecreateSession
CreateSessionError == [type |-> "createSessionError"]

\* a session check that never finds the session failed
SessionFailed_Never(state) == FALSE

\* whether the session of the context has been marked as failed
SessionFailed(state) == state = "failed"

\* whether the context holds a session that is still open
SessionOpen(state) == state = "open"

InitSession == CodecIdle /\ ConcIdle /\ SessIdle

\* what CreateSession and RecreateSession do: they fail on a context whose
\* session is still open, or when no worker takes the session in time
NewSession ==
    /\ created < MaxSessions
    /\ prevState' = sessState
    /\ prevScheduled' = scheduled
    /\ scheduled' = scheduled
    /\ \/ /\ SessionOpen(sessState)
          /\ sessErr' = CreateSessionError
          /\ UNCHANGED <<sessState, created>>
       \/ /\ ~SessionOpen(sessState)
          /\ \E busy \in BOOLEAN :
                IF busy
                THEN /\ sessErr' = CreateSessionError
                     /\ UNCHANGED <<sessState, created>>
                ELSE /\ sessErr' = Nil
                     /\ sessState' = "open"
                     /\ created' = created + 1
    /\ UNCHANGED <<codecVars, concVars>>

\* sessionCtx, err := CreateSession(ctx, sessionOptions)
CreateSession ==
    /\ sessOp' = "CreateSession"
    /\ NewSession

\* sessionCtx, err := RecreateSession(ctx, params, sessionOptions)
RecreateSession ==
    /\ created > 0
    /\ sessOp' = "RecreateSession"
    /\ NewSession

\* err = ExecuteActivity(sessionCtx, someActivityFunc, activityInput).Get(sessionCtx, nil)
ExecuteActivity ==
    /\ sessOp' = "ExecuteActivity"
    /\ prevState' = sessState
    /\ prevScheduled' = scheduled
    /\ IF SessionFailed(sessState)
       THEN /\ sessErr' = ErrSessionFailed
            /\ scheduled' = scheduled
       ELSE /\ scheduled < MaxActivities
            /\ scheduled' = scheduled + 1
            /\ sessErr' \in {Nil, ActivityError}
    /\ UNCHANGED <<codecVars, concVars, sessState, created>>

\* the worker executing the session goes down
WorkerDown ==
    /\ SessionOpen(sessState)
    /\ sessState' = "failed"
    /\ sessOp' = "WorkerDown"
    /\ prevState' = sessState
    /\ prevScheduled' = scheduled
    /\ UNCHANGED <<codecVars, concVars, scheduled, created, sessErr>>

\* CompleteSession(sessionCtx)
CompleteSession ==
    /\ sessState' = IF SessionOpen(sessState) THEN "closed" ELSE sessState
    /\ sessOp' = "CompleteSession"
    /\ prevState' = sessState
    /\ prevScheduled' = scheduled
    /\ UNCHANGED <<codecVars, concVars, scheduled, created, sessErr>>

NextSession ==
    \/ CreateSession
    \/ RecreateSession
    \/ ExecuteActivity
    \/ WorkerDown
    \/ CompleteSession

SpecSession == InitSession /\ [][NextSession]_vars

----------------------------------------------------------------------------
(* Properties. *)

\* the number of populated slots of a Result
NumPopulated(v) == Cardinality(Populated(v))

\* every populated slot of v holds a struct that its own ToWire accepts
AllEncodable(v) == \A s \in Populated(v) : v[s].encodable

\* err is the arity error of the method's Result struct with count n
IsArityError(e, n) ==
    /\ e.type = "arity"
    /\ e.name = "WorkflowService_ListClosedWorkflowExecutions_Result"
    /\ e.count = n

\* e is a non-nil pointer of one of the five declared exception types
IsDeclared(e) ==
    /\ e.type = "exception"
    /\ e.kind \in { "*shared.BadRequestError", "*shared.InternalServiceError",
                    "*shared.EntityNotExistsError", "*shared.ServiceBusyError",
                    "*shared.ClientVersionNotSupportedError" }

\* the Result slot that carries an error of the declared type t
SlotOf(t) ==
    CASE t = "*shared.BadRequestError"                -> "BadRequestError"
      [] t = "*shared.InternalServiceError"           -> "InternalServiceError"
      [] t = "*shared.EntityNotExistsError"           -> "EntityNotExistError"
      [] t = "*shared.ServiceBusyError"               -> "ServiceBusyError"
      [] t = "*shared.ClientVersionNotSupportedError" -> "ClientVersionNotSupportedError"

\* C1: a valid Args or Result encodes, and decoding the wire value that
\* ToWire returned into a zero struct succeeds and gives a struct that
\* Equals the original, with the same slots populated.
RoundTrip ==
    /\ (op = "Args.ToWire" /\ (sent.ListRequest # Nil => sent.ListRequest.encodable))
          => err = Nil
    /\ (op = "Result.ToWire" /\ NumPopulated(sent) = 1 /\ AllEncodable(sent))
          => err = Nil
    /\ (op = "Args.FromWire" /\ from = "Args.ToWire")
          => /\ err = Nil
             /\ Args_Equals(args, sent)
             /\ (args.ListRequest = Nil <=> sent.ListRequest = Nil)
    /\ (op = "Result.FromWire" /\ from = "Result.ToWire")
          => /\ err = Nil
             /\ Result_Equals(result, sent)
             /\ Populated(result) = Populated(sent)

RoundTripWitness ==
    /\ op = "Result.FromWire"
    /\ from = "Result.ToWire"
    /\ pre = ZeroResult
    /\ sent.ServiceBusyError # Nil
    /\ result.ServiceBusyError # Nil

\* C2: when the nested encoders succeed, Result.ToWire returns a wire struct
\* exactly when one slot is populated, and otherwise the error that names the
\* Result struct and carries the number of populated slots; it never returns
\* a wire value for a Result that has not exactly one slot populated.
EncodeArity ==
    op = "Result.ToWire" =>
        /\ err = Nil => /\ NumPopulated(sent) = 1
                        /\ w.type = "TStruct"
                        /\ Len(w.Fields) = 1
        /\ AllEncodable(sent) =>
              /\ err = Nil <=> NumPopulated(sent) = 1
              /\ NumPopulated(sent) # 1 =>
                    /\ IsArityError(err, NumPopulated(sent))
                    /\ w = EmptyValue

EncodeArityWitness ==
    /\ op = "Result.ToWire"
    /\ NumPopulated(sent) = 2
    /\ AllEncodable(sent)
    /\ err.type = "arity"

\* the declared field IDs that carry a struct in the wire struct x
StructIDs(x) ==
    {x.Fields[i].ID : i \in {j \in 1..Len(x.Fields) :
                                /\ x.Fields[j].ID \in 0..5
                                /\ x.Fields[j].Value.type = "TStruct"}}

\* every struct under a declared ID of x is one its decoder accepts
AllDecodable(x) ==
    \A i \in 1..Len(x.Fields) :
        (x.Fields[i].ID \in 0..5 /\ x.Fields[i].Value.type = "TStruct")
            => x.Fields[i].Value.decodable

\* C3: when Result.FromWire returns no error exactly one slot of the Result
\* is populated; a wire struct with two populated declared fields decoded
\* into a zero struct fails with the arity error reporting count 2.
DecodeArity ==
    op = "Result.FromWire" =>
        /\ err = Nil => NumPopulated(result) = 1
        /\ ( /\ pre = ZeroResult
             /\ w.type = "TStruct"
             /\ Cardinality(StructIDs(w)) = 2
             /\ AllDecodable(w) )
           => IsArityError(err, 2)

DecodeArityWitness ==
    /\ op = "Result.FromWire"
    /\ from = "init"
    /\ w.type = "TStruct"
    /\ StructIDs(w) = {0, 1}
    /\ result.Success # Nil
    /\ result.BadRequestError # Nil
    /\ err.type = "arity"

\* C4 as stated: WrapResponse(success, nil) returns no error and a Result
\* with exactly the Success slot populated, and ToWire of it succeeds.
WrapSuccessAlways ==
    /\ (op = "WrapResponse" /\ inErr = Nil)
          => /\ err = Nil
             /\ result # Nil
             /\ Populated(result) = {"Success"}
    /\ (op = "Result.ToWire" /\ from = "WrapResponse" /\ inErr = Nil)
          => err = Nil

\* C4 amended: WrapResponse(success, nil) returns no error and a Result whose
\* Success slot holds success and whose exception slots are absent; for a
\* non-nil success exactly the Success slot is populated and ToWire succeeds
\* when the encoder of the payload does; for a nil success no slot is
\* populated and ToWire fails with the arity error of count 0.
WrapSuccess ==
    /\ (op = "WrapResponse" /\ inErr = Nil)
          => /\ err = Nil
             /\ result # Nil
             /\ result.Success = success
             /\ Populated(result) \subseteq {"Success"}
             /\ success # Nil => Populated(result) = {"Success"}
    /\ (op = "Result.ToWire" /\ from = "WrapResponse" /\ inErr = Nil)
          => /\ (success # Nil /\ success.encodable)
                   => (err = Nil /\ w.type = "TStruct")
             /\ success = Nil => IsArityError(err, 0)

WrapSuccessWitness ==
    /\ op = "Result.ToWire"
    /\ from = "WrapResponse"
    /\ inErr = Nil
    /\ success # Nil
    /\ err = Nil

\* C5: for a non-nil error e of a declared exception type and any success
\* argument, WrapResponse returns no error and a Result whose only populated
\* slot is the slot of that type, holding e; UnwrapResponse of that Result
\* returns (nil, e).
WrapException ==
    /\ (op = "WrapResponse" /\ IsDeclared(inErr) /\ inErr.ptr # Nil)
          => /\ err = Nil
             /\ result # Nil
             /\ Populated(result) = {SlotOf(inErr.kind)}
             /\ result[SlotOf(inErr.kind)] = inErr.ptr
    /\ ( /\ op = "UnwrapResponse"
         /\ from = "WrapResponse"
         /\ IsDeclared(inErr)
         /\ inErr.ptr # Nil )
          => /\ value = Nil
             /\ err = inErr

WrapExceptionWitness ==
    /\ op = "UnwrapResponse"
    /\ from = "WrapResponse"
    /\ IsDeclared(inErr)
    /\ inErr.kind = "*shared.EntityNotExistsError"
    /\ inErr.ptr # Nil
    /\ success # Nil

\* C6: given a non-nil error of none of the declared kinds, WrapResponse
\* returns a nil Result and that same error, whatever the success argument.
UnclassifiedPassthrough ==
    (op = "WrapResponse" /\ inErr # Nil /\ ~IsDeclared(inErr))
        => /\ result = Nil
           /\ err = inErr

UnclassifiedPassthroughWitness ==
    /\ op = "WrapResponse"
    /\ inErr.type = "errorString"
    /\ success # Nil
    /\ result = Nil

\* the order in which UnwrapResponse is to look at the slots
Priority ==
    << "BadRequestError", "InternalServiceError", "EntityNotExistError",
       "ServiceBusyError", "ClientVersionNotSupportedError", "Success" >>

\* C7: UnwrapResponse returns the value of the first populated slot in the
\* order BadRequestError, InternalServiceError, EntityNotExistError,
\* ServiceBusyError, ClientVersionNotSupportedError, Success: an exception
\* as the error with a nil success, the Success value with a nil error.
UnwrapPriority ==
    op = "UnwrapResponse" =>
        \A k \in 1..Len(Priority) :
            ( /\ result[Priority[k]] # Nil
              /\ \A j \in 1..(k - 1) : result[Priority[j]] = Nil )
            => IF Priority[k] = "Success"
               THEN value = result.Success /\ err = Nil
               ELSE /\ value = Nil
                    /\ err.type = "exception"
                    /\ err.ptr = result[Priority[k]]
                    /\ SlotOf(err.kind) = Priority[k]

UnwrapPriorityWitness ==
    /\ op = "UnwrapResponse"
    /\ result.Success # Nil
    /\ result.ServiceBusyError # Nil
    /\ value = Nil

\* C8: IsException(err) is true exactly when the concrete type of err is one
\* of the five declared exception types; it is false for a nil error.
IsExceptionDeclared ==
    op = "IsException" => (isExc <=> IsDeclared(inErr))

IsExceptionDeclaredWitness ==
    /\ op = "IsException"
    /\ inErr.type = "exception"
    /\ inErr.kind = "*shared.ClientVersionNotSupportedError"
    /\ isExc

\* C9: given an error of a declared exception type whose pointer is nil,
\* WrapResponse returns no Result and the error made for that case, which is
\* neither nil nor the error it was given.
DefensiveNil ==
    (op = "WrapResponse" /\ IsDeclared(inErr) /\ inErr.ptr = Nil)
        => /\ result = Nil
           /\ err.type = "nilValue"
           /\ err.slot = SlotOf(inErr.kind)

DefensiveNilWitness ==
    /\ op = "WrapResponse"
    /\ IsDeclared(inErr)
    /\ inErr.ptr = Nil
    /\ err.type = "nilValue"

UnwrapErrorOnlyIfThrown ==
    (op = "UnwrapResponse" /\ err # Nil)
        => \E s \in SlotNames \ {"Success"} : result[s] # Nil

\* C12: FromWire, of Args and of Result, returns an error whenever the wire
\* value it is given is not the Struct variant.
DecodeShape ==
    (op \in {"Args.FromWire", "Result.FromWire"} /\ w.type # "TStruct")
        => err # Nil

\* the wire struct x carries, under one of the field IDs ids, a struct that
\* its decoder rejects
HasUndecodable(x, ids) ==
    /\ x.type = "TStruct"
    /\ \E i \in 1..Len(x.Fields) :
          /\ x.Fields[i].ID \in ids
          /\ x.Fields[i].Value.type = "TStruct"
          /\ ~x.Fields[i].Value.decodable

\* the field IDs among ids that carry a struct in the wire value x
StructIDsAmong(x, ids) ==
    IF x.type = "TStruct"
    THEN {x.Fields[i].ID : i \in {j \in 1..Len(x.Fields) :
                                     /\ x.Fields[j].ID \in ids
                                     /\ x.Fields[j].Value.type = "TStruct"}}
    ELSE {}

\* C13 as stated: whenever FromWire returns an error the receiver is left
\* as it was before the call.
PartialNeverExposed ==
    /\ (op = "Args.FromWire" /\ err # Nil) => args = pre
    /\ (op = "Result.FromWire" /\ err # Nil) => result = pre

\* C13 amended: FromWire may leave the receiver changed when it returns an
\* error (the slots decoded before the failure, and the slot of the failing
\* decoder with the partially decoded struct), but it never returns nil
\* after a nested decoder has failed, a struct it returns without an error
\* holds no partially decoded slot, and the only slots it changes are those
\* whose field ID is on the wire with a struct value.
PartialOnlyWithError ==
    /\ op = "Args.FromWire" =>
          /\ HasUndecodable(w, {1}) =>
                (err.type = "errorString" /\ err.msg = "nested FromWire failed")
          /\ (err = Nil /\ args.ListRequest # Nil) => args.ListRequest.body # 0
          /\ args # pre => StructIDsAmong(w, {1}) = {1}
    /\ op = "Result.FromWire" =>
          /\ HasUndecodable(w, 0..5) =>
                (err.type = "errorString" /\ err.msg = "nested FromWire failed")
          /\ err = Nil => \A s \in Populated(result) : result[s].body # 0
          /\ \A i \in 1..Len(Slots) :
                result[Slots[i]] # pre[Slots[i]] => (i - 1) \in StructIDsAmong(w, 0..5)

PartialOnlyWithErrorWitness ==
    /\ op = "Result.FromWire"
    /\ err.type = "errorString"
    /\ pre = ZeroResult
    /\ result.Success # Nil
    /\ result.ServiceBusyError # Nil
    /\ result.ServiceBusyError.body = 0

\* the wire struct x without the fields whose ID is not among ids
KnownOnly(x, ids) ==
    NewValueStruct(SelectSeq(x.Fields, LAMBDA f : f.ID \in ids))

\* the positions of the fields of x whose ID is among ids
KnownAt(x, ids) == {i \in 1..Len(x.Fields) : x.Fields[i].ID \in ids}

\* C14: fields with an undeclared ID are ignored by FromWire: the outcome is
\* that of the wire struct without them, and a wire struct with one valid
\* declared field and any unknown fields decodes into a zero struct without
\* error, with only the slot of the declared field populated.
ForwardCompatible ==
    /\ (op = "Args.FromWire" /\ w.type = "TStruct") =>
          /\ LET r == Args_FromWire(pre, KnownOnly(w, {1}))
             IN  args = r.v /\ err = r.err
          /\ \A i \in 1..Len(w.Fields) :
                ( /\ KnownAt(w, {1}) = {i}
                  /\ w.Fields[i].Value.type = "TStruct"
                  /\ w.Fields[i].Value.decodable )
                => /\ err = Nil
                   /\ args.ListRequest # Nil
                   /\ args.ListRequest.body = w.Fields[i].Value.body
    /\ (op = "Result.FromWire" /\ w.type = "TStruct") =>
          /\ LET r == Result_FromWire(pre, KnownOnly(w, 0..5))
             IN  result = r.v /\ err = r.err
          /\ \A i \in 1..Len(w.Fields) :
                ( /\ pre = ZeroResult
                  /\ KnownAt(w, 0..5) = {i}
                  /\ w.Fields[i].Value.type = "TStruct"
                  /\ w.Fields[i].Value.decodable )
                => /\ err = Nil
                   /\ Populated(result) = {Slots[w.Fields[i].ID + 1]}
                   /\ result[Slots[w.Fields[i].ID + 1]].body
                         = w.Fields[i].Value.body

ForwardCompatibleWitness ==
    /\ op = "Result.FromWire"
    /\ w.type = "TStruct"
    /\ Len(w.Fields) = 2
    /\ w.Fields[1].ID \notin 0..5
    /\ w.Fields[1].Value.type = "TStruct"
    /\ w.Fields[2].ID = 3
    /\ err = Nil
    /\ Populated(result) = {"EntityNotExistError"}

\* the wire struct x without the fields that carry one of the IDs ids but
\* are not structs
MatchingOnly(x, ids) ==
    NewValueStruct(SelectSeq(x.Fields,
        LAMBDA f : ~(f.ID \in ids /\ f.Value.type # "TStruct")))

\* C15: a field with a declared ID whose wire type is not a struct is
\* skipped: the slots and the error of FromWire are those of the wire struct
\* without that field.
LenientRead ==
    /\ (op = "Args.FromWire" /\ w.type = "TStruct") =>
          /\ LET r == Args_FromWire(pre, MatchingOnly(w, {1}))
             IN  args = r.v /\ err = r.err
          /\ (\A i \in KnownAt(w, {1}) : w.Fields[i].Value.type # "TStruct")
                => (err = Nil /\ args = pre)
    /\ (op = "Result.FromWire" /\ w.type = "TStruct") =>
          /\ LET r == Result_FromWire(pre, MatchingOnly(w, 0..5))
             IN  result = r.v /\ err = r.err
          /\ \A i \in 1..Len(Slots) :
                (\A j \in KnownAt(w, {i - 1}) : w.Fields[j].Value.type # "TStruct")
                   => result[Slots[i]] = pre[Slots[i]]

LenientReadWitness ==
    /\ op = "Result.FromWire"
    /\ w.type = "TStruct"
    /\ Len(w.Fields) = 2
    /\ w.Fields[1].ID = 0
    /\ w.Fields[1].Value.type = "TBool"
    /\ w.Fields[2].ID = 2
    /\ err = Nil
    /\ Populated(result) = {"InternalServiceError"}

\* C16: Args.ToWire of an absent ListRequest succeeds with a struct of zero
\* fields, of a present one it gives exactly one field, with ID 1, holding
\* the encoded struct; Args.FromWire makes no arity check: it fails only
\* when a nested decoder does, and a struct of zero fields decodes without
\* error and leaves ListRequest absent.
ArgsOptional ==
    /\ op = "Args.ToWire" =>
          /\ sent.ListRequest = Nil =>
                (err = Nil /\ w = [type |-> "TStruct", Fields |-> << >>])
          /\ (sent.ListRequest # Nil /\ sent.ListRequest.encodable) => err = Nil
          /\ (sent.ListRequest # Nil /\ err = Nil) =>
                /\ w.type = "TStruct"
                /\ Len(w.Fields) = 1
                /\ w.Fields[1].ID = 1
                /\ w.Fields[1].Value.type = "TStruct"
                /\ w.Fields[1].Value.body = sent.ListRequest.body
    /\ op = "Args.FromWire" =>
          /\ ~HasUndecodable(w, {1}) => err = Nil
          /\ (w.type = "TStruct" /\ Len(w.Fields) = 0) =>
                (err = Nil /\ args = pre)
          /\ (StructIDsAmong(w, {1}) = {} /\ pre = [ListRequest |-> Nil]) =>
                args.ListRequest = Nil

ArgsOptionalWitness ==
    /\ op = "Args.FromWire"
    /\ from = "Args.ToWire"
    /\ sent.ListRequest = Nil
    /\ w.type = "TStruct"
    /\ Len(w.Fields) = 0
    /\ args.ListRequest = Nil
    /\ err = Nil

\* the slots of the Result by field ID, 0 to 5
FieldOrder ==
    << "Success", "BadRequestError", "InternalServiceError",
       "EntityNotExistError", "ServiceBusyError",
       "ClientVersionNotSupportedError" >>

\* the positions in FieldOrder of the populated slots of v that do not encode
Failing(v) ==
    {i \in 1..Len(FieldOrder) :
        v[FieldOrder[i]] # Nil /\ ~v[FieldOrder[i]].encodable}

\* C20: when the nested encoder of a populated slot fails, ToWire returns
\* the error of the first such slot in field-ID order, unchanged and with no
\* wire struct, whatever the number of populated slots: the nested error
\* comes before the arity error.
EncodeFirstError ==
    /\ (op = "Args.ToWire" /\ sent.ListRequest # Nil /\ ~sent.ListRequest.encodable)
          => /\ err = [type |-> "encodeError", body |-> sent.ListRequest.body]
             /\ w.type # "TStruct"
    /\ (op = "Result.ToWire" /\ Failing(sent) # {})
          => LET first == CHOOSE i \in Failing(sent) :
                              \A j \in Failing(sent) : i <= j
             IN  /\ err = [type |-> "encodeError",
                           body |-> sent[FieldOrder[first]].body]
                 /\ w.type # "TStruct"

EncodeFirstErrorWitness ==
    /\ op = "Result.ToWire"
    /\ Cardinality(Populated(sent)) = 2
    /\ Cardinality(Failing(sent)) = 2
    /\ sent.Success # Nil
    /\ sent.ServiceBusyError # Nil
    /\ sent.Success.body # sent.ServiceBusyError.body
    /\ err.type = "encodeError"
    /\ err.body = sent.Success.body

\* C18: for every Args and every Result, whatever it holds, MethodName is
\* "ListClosedWorkflowExecutions"; EnvelopeType of an Args is Call and of a
\* Result is Reply, also for a struct that FromWire has decoded.
EnvelopeConstant ==
    /\ op = "Args.Envelope" =>
          /\ meta.of = "Args"
          /\ meta.name = "ListClosedWorkflowExecutions"
          /\ meta.envelope = "Call"
    /\ op = "Result.Envelope" =>
          /\ meta.of = "Result"
          /\ meta.name = "ListClosedWorkflowExecutions"
          /\ meta.envelope = "Reply"

EnvelopeConstantWitness ==
    /\ op = "Result.Envelope"
    /\ from = "Result.FromWire"
    /\ sent # Nil
    /\ err = Nil
    /\ result.BadRequestError # Nil
    /\ meta.envelope = "Reply"

\* what the call of goroutine g, run alone from the receiver it began with,
\* returns and leaves in the receiver
Alone(g) == Result_FromWire(gstart[g], gwire[g])

\* the call of goroutine g has returned what it returns when run alone
AsAlone(g) ==
    gpc[g] = "done" => gerr[g] = Alone(g).err /\ gout[g] = Alone(g).v

\* C17 as stated: every call writes only a value it has allocated, so that
\* whatever the interleaving, and whatever structs the callers pass, a call
\* returns what it returns when run alone.
ConcurrentAsAlone == \A g \in Goroutines : AsAlone(g)

\* C17: FromWire stores into the struct its receiver points to. Two calls
\* that do not overlap on one struct (they run one after the other, or on
\* two structs) each return what they return when run alone.
ConcurrentDistinctAsAlone ==
    ~(overlap /\ grcv[1] = grcv[2]) => \A g \in Goroutines : AsAlone(g)

ConcurrentDistinctAsAloneWitness ==
    /\ overlap
    /\ grcv[1] # grcv[2]
    /\ \A g \in Goroutines : gpc[g] = "done" /\ gerr[g] = Nil
    /\ obj[grcv[1]].Success # Nil
    /\ obj[grcv[2]].BadRequestError # Nil

\* C19: executing an activity in a session that has been marked failed
\* returns ErrSessionFailed and schedules nothing; a session stays failed
\* until a new one is created; and executing an activity, whatever it
\* returns, never marks the session failed: only a worker going down does.
SessionFailure ==
    /\ (sessOp = "ExecuteActivity" /\ prevState = "failed") =>
          /\ sessErr = ErrSessionFailed
          /\ scheduled = prevScheduled
          /\ sessState = "failed"
    /\ (sessOp = "ExecuteActivity" /\ prevState # "failed") =>
          /\ sessState = prevState
          /\ sessErr # ErrSessionFailed
    /\ (sessState = "failed" /\ prevState # "failed") => sessOp = "WorkerDown"
    /\ (prevState = "failed" /\ sessState # "failed") =>
          sessOp \in {"CreateSession", "RecreateSession"}

SessionFailureWitness ==
    /\ sessOp = "ExecuteActivity"
    /\ prevState = "failed"
    /\ sessErr = ErrSessionFailed
    /\ scheduled > 0
    /\ scheduled = prevScheduled

\* the bijections of 1..n
Perms(n) == {p \in [1..n -> 1..n] : \A i, j \in 1..n : p[i] = p[j] => i = j}

\* the wire struct x with its fields in the order p
Permuted(x, p) == NewValueStruct([i \in 1..Len(x.Fields) |-> x.Fields[p[i]]])

\* the field IDs of the wire struct x are pairwise distinct
DistinctIDs(x) ==
    \A i, j \in 1..Len(x.Fields) : x.Fields[i].ID = x.Fields[j].ID => i = j

\* C21: field order on the wire is not significant. When the field IDs of a
\* wire struct are pairwise distinct and its nested structs all decode,
\* FromWire (Args or Result) leaves the same slots and returns the same error
\* for every permutation of the fields; and a struct that ToWire produces
\* has pairwise distinct field IDs.
OrderInsignificant ==
    /\ (/\ op \in {"Result.FromWire", "Args.FromWire"}
        /\ w.type = "TStruct"
        /\ DistinctIDs(w)
        /\ AllDecodable(w)) =>
          \A p \in Perms(Len(w.Fields)) :
              IF op = "Result.FromWire"
              THEN Result_FromWire(pre, Permuted(w, p))
                      = [v |-> result, err |-> err]
              ELSE Args_FromWire(pre, Permuted(w, p))
                      = [v |-> args, err |-> err]
    /\ (op \in {"Result.ToWire", "Args.ToWire"} /\ err = Nil) =>
          w.type = "TStruct" /\ DistinctIDs(w)

OrderInsignificantWitness ==
    /\ op = "Result.FromWire"
    /\ from = "init"
    /\ w.type = "TStruct"
    /\ Len(w.Fields) = 2
    /\ w.Fields[1].ID = 4
    /\ w.Fields[2].ID = 0
    /\ StructIDs(w) = {0, 4}
    /\ AllDecodable(w)
    /\ IsArityError(err, 2)
    /\ result.Success # Nil
    /\ result.ServiceBusyError # Nil

\* the positions of the wire struct x that carry a struct under the ID id
StructAt(x, id) ==
    {i \in 1..Len(x.Fields) :
        x.Fields[i].ID = id /\ x.Fields[i].Value.type = "TStruct"}

\* the last of the positions in the non-empty set S
Last(S) == CHOOSE i \in S : \A j \in S : j <= i

\* C22: the arity check of Result.FromWire counts populated slots, not wire
\* fields. Decoding a wire struct whose nested structs all decode into a zero
\* struct, a slot holds the last struct the wire carries under its ID, a
\* repeated ID counts once, and the call succeeds exactly when one declared
\* ID carries a struct, however often: two struct fields with ID 0 and no
\* other declared field give a Result with only Success populated.
LastOccurrenceWins ==
    (/\ op = "Result.FromWire"
     /\ pre = ZeroResult
     /\ w.type = "TStruct"
     /\ AllDecodable(w)) =>
        /\ \A id \in 0..5 :
              IF StructAt(w, id) = {}
              THEN result[Slots[id + 1]] = Nil
              ELSE result[Slots[id + 1]]
                      = Struct_Read(w.Fields[Last(StructAt(w, id))].Value).v
        /\ (err = Nil) <=> (Cardinality(StructIDs(w)) = 1)
        /\ (err # Nil) => IsArityError(err, Cardinality(StructIDs(w)))

LastOccurrenceWinsWitness ==
    /\ op = "Result.FromWire"
    /\ pre = ZeroResult
    /\ w.type = "TStruct"
    /\ Len(w.Fields) = 2
    /\ StructAt(w, 0) = {1, 2}
    /\ AllDecodable(w)
    /\ w.Fields[1].Value.body = 1
    /\ w.Fields[2].Value.body = 2
    /\ err = Nil
    /\ Populated(result) = {"Success"}
    /\ result.Success.body = 2

\* the slots of a Result that the wire struct x carries a struct for
SlotsOnWire(x) == {Slots[id + 1] : id \in StructIDs(x)}

\* what FromWire gives for the wire value in w on a zero struct
FreshResult == Result_FromWire(ZeroResult, w)

FreshArgs == Args_FromWire(ZeroArgs, w)

\* C23 as stated: FromWire never clears a slot, and its outcome equals the
\* outcome on a zero struct only when the receiver starts with no slot
\* populated.
ReuseNeverAsFresh ==
    /\ (op = "Result.FromWire" /\ w.type = "TStruct") =>
          /\ Populated(pre) \subseteq Populated(result)
          /\ (FreshResult = [v |-> result, err |-> err]) => pre = ZeroResult
    /\ (op = "Args.FromWire" /\ w.type = "TStruct") =>
          /\ pre.ListRequest # Nil => args.ListRequest # Nil
          /\ (FreshArgs = [v |-> args, err |-> err]) => pre = ZeroArgs

\* C23: FromWire only sets slots. A slot populated before the call is
\* populated after it; when the nested structs of the wire all decode, the
\* slots the wire carries no struct for are left as they were and the arity
\* check of Result counts them with the decoded ones; and the outcome equals
\* the outcome on a zero struct exactly when the wire carries a struct for
\* every slot that was populated before.
ReuseKeepsSlots ==
    /\ (op = "Result.FromWire" /\ w.type = "TStruct") =>
          /\ Populated(pre) \subseteq Populated(result)
          /\ AllDecodable(w) =>
                /\ \A s \in SlotNames \ SlotsOnWire(w) : result[s] = pre[s]
                /\ Populated(result) = Populated(pre) \cup SlotsOnWire(w)
                /\ (err = Nil) <=> (NumPopulated(result) = 1)
                /\ (err # Nil) => IsArityError(err, NumPopulated(result))
                /\ (FreshResult = [v |-> result, err |-> err])
                      <=> (Populated(pre) \subseteq SlotsOnWire(w))
    /\ (op = "Args.FromWire" /\ w.type = "TStruct") =>
          /\ pre.ListRequest # Nil => args.ListRequest # Nil
          /\ AllDecodable(w) =>
                /\ err = Nil
                /\ StructAt(w, 1) = {} => args = pre
                /\ (FreshArgs = [v |-> args, err |-> err])
                      <=> (pre.ListRequest = Nil \/ StructAt(w, 1) # {})

ReuseKeepsSlotsWitness ==
    /\ op = "Result.FromWire"
    /\ from = "init"
    /\ Populated(pre) = {"BadRequestError"}
    /\ w.type = "TStruct"
    /\ Len(w.Fields) = 1
    /\ StructAt(w, 0) = {1}
    /\ AllDecodable(w)
    /\ IsArityError(err, 2)
    /\ Populated(result) = {"Success", "BadRequestError"}
    /\ result.BadRequestError = pre.BadRequestError

====
